---- MODULE Spec2Model ----
(***************************************************************************)
(* Model of pure-git-blame (src/src/extension.ts): the GitBlameProvider    *)
(* class (blame fetch, error routing, porcelain parser, selection-to-      *)
(* decoration reconcile, toggle) and the event handlers registered by      *)
(* activate().                                                             *)
(*                                                                         *)
(* Text is modelled as a sequence of one-character strings, so that        *)
(* startsWith, substring, split, parseInt and the date formatting are      *)
(* computed and not assumed.                                               *)
(***************************************************************************)
EXTENDS Integers, Sequences, FiniteSets, TLC

VARIABLES
    phase,            \* "constructed" (after new GitBlameProvider()), then "activated"
    enabled,          \* GitBlameProvider.enabled
    statusText,       \* statusBarItem.text
    statusTooltip,    \* statusBarItem.tooltip
    cache,            \* GitBlameProvider.cache: a Map, here a function on the keys present
    tasks,            \* updateDecorations calls suspended inside getGitBlame
    decorated,        \* per editor, what setDecorations(decorationType, ...) last gave it
    document,         \* host: each visible editor's document
    activeTextEditor, \* host: vscode.window.activeTextEditor
    selections,       \* host: each editor's selections
    notARepoShown,    \* history: times showError switched the status bar to "not a repository"
    last,             \* history: what the latest step did
    output,           \* parser run: the text handed to parseBlameOutput
    parsed            \* parser run: whether parseBlameOutput was called, and what it did

providerVars == <<phase, enabled, statusText, statusTooltip, cache, tasks, decorated,
                  document, activeTextEditor, selections, notARepoShown, last>>

parserVars == <<output, parsed>>

vars == <<providerVars, parserVars>>

(***************************************************************************)
(* Text helpers (JavaScript string methods used by the source).            *)
(***************************************************************************)
Min(a, b) == IF a < b THEN a ELSE b

Repeat(c, n) == [i \in 1..n |-> c]

\* String.prototype.startsWith
startsWith(s, p) == Len(s) >= Len(p) /\ SubSeq(s, 1, Len(p)) = p

\* String.prototype.substring(from) / substring(from, to), 0-based as in JS
substring(s, from) == SubSeq(s, Min(from, Len(s)) + 1, Len(s))

substringTo(s, from, to) == SubSeq(s, Min(from, Len(s)) + 1, Min(to, Len(s)))

NewLine == "\n"

\* String.prototype.split('\n'): the pieces between the separators; a text
\* that ends with the separator has a last, empty piece.
split(s) ==
    LET seps == {i \in 1..Len(s) : s[i] = NewLine}
        n == Cardinality(seps)
        Sep(k) == CHOOSE i \in seps : Cardinality({j \in seps : j < i}) = k - 1
    IN  [k \in 1..(n + 1) |->
            SubSeq(s, IF k = 1 THEN 1 ELSE Sep(k - 1) + 1,
                      IF k = n + 1 THEN Len(s) ELSE Sep(k) - 1)]

DecDigits == <<"0", "1", "2", "3", "4", "5", "6", "7", "8", "9">>

HexLower == {"0", "1", "2", "3", "4", "5", "6", "7", "8", "9",
             "a", "b", "c", "d", "e", "f"}

HexValue(c) ==
    CASE c \in {"a", "A"} -> 10 [] c \in {"b", "B"} -> 11
      [] c \in {"c", "C"} -> 12 [] c \in {"d", "D"} -> 13
      [] c \in {"e", "E"} -> 14 [] c \in {"f", "F"} -> 15
      [] OTHER -> CHOOSE d \in 0..9 : DecDigits[d + 1] = c

IsDigit(c, radix) ==
    \/ \E d \in 0..9 : DecDigits[d + 1] = c
    \/ radix = 16 /\ c \in {"a", "b", "c", "d", "e", "f", "A", "B", "C", "D", "E", "F"}

WhiteSpace == {" ", "\t", "\r", "\n"}

\* The regular expression of line 135: /^[0-9a-f]{40}/
HashLen == 40

MatchesHash(line) ==
    Len(line) >= HashLen /\ \A i \in 1..HashLen : line[i] \in HexLower

(***************************************************************************)
(* parseInt(text) with no radix, as line 131 calls it.  The result is NaN  *)
(* or a sign and a magnitude; the magnitude is kept as decimal digits      *)
(* (most significant first, no leading zero), so that no value is cut to   *)
(* the checker's integer width.                                            *)
(***************************************************************************)
RECURSIVE SkipWhile(_, _, _)
SkipWhile(s, i, set) ==
    IF i <= Len(s) /\ s[i] \in set THEN SkipWhile(s, i + 1, set) ELSE i

RECURSIVE DigitRun(_, _, _)
DigitRun(s, i, radix) ==
    IF i <= Len(s) /\ IsDigit(s[i], radix)
    THEN <<HexValue(s[i])>> \o DigitRun(s, i + 1, radix)
    ELSE <<>>

\* digits * m + a on a decimal digit sequence (least significant last)
RECURSIVE MulAddRev(_, _, _, _)
MulAddRev(ds, k, m, carry) ==
    IF k = 0
    THEN IF carry = 0 THEN <<>>
         ELSE MulAddRev(ds, 0, m, carry \div 10) \o <<carry % 10>>
    ELSE LET v == ds[k] * m + carry
         IN  MulAddRev(ds, k - 1, m, v \div 10) \o <<v % 10>>

MulAdd(ds, m, a) == MulAddRev(ds, Len(ds), m, a)

RECURSIVE StripZeros(_)
StripZeros(ds) ==
    IF ds # <<>> /\ ds[1] = 0 THEN StripZeros(Tail(ds)) ELSE ds

RECURSIVE ToDecimal(_, _, _)
ToDecimal(run, radix, acc) ==
    IF run = <<>> THEN StripZeros(acc)
    ELSE ToDecimal(Tail(run), radix, MulAdd(acc, radix, run[1]))

NaN == [nan |-> TRUE]

parseInt(s) ==
    LET i0   == SkipWhile(s, 1, WhiteSpace)
        neg  == i0 <= Len(s) /\ s[i0] = "-"
        i1   == IF i0 <= Len(s) /\ s[i0] \in {"-", "+"} THEN i0 + 1 ELSE i0
        hex  == i1 + 1 <= Len(s) /\ s[i1] = "0" /\ s[i1 + 1] \in {"x", "X"}
        radix == IF hex THEN 16 ELSE 10
        run  == DigitRun(s, IF hex THEN i1 + 2 ELSE i1, radix)
    IN  IF run = <<>> THEN NaN
        ELSE [nan |-> FALSE, neg |-> neg, digits |-> ToDecimal(run, radix, <<>>)]

(***************************************************************************)
(* new Date(timestamp * 1000).toISOString().split('T')[0]  (line 132).     *)
(* A Date holds a time value of at most 8.64e15 ms either side of the      *)
(* epoch; outside it, and for NaN, the Date is invalid and toISOString     *)
(* throws a RangeError.                                                    *)
(***************************************************************************)
SecondsPerDay == 86400

\* long division of a decimal digit sequence: <<quotient, remainder>>
RECURSIVE DivModDigits(_, _, _, _)
DivModDigits(ds, k, q, r) ==
    IF k > Len(ds) THEN <<q, r>>
    ELSE LET v == r * 10 + ds[k]
         IN  DivModDigits(ds, k + 1, q * 10 + (v \div SecondsPerDay), v % SecondsPerDay)

\* the largest day count of a valid Date: 8.64e15 ms = 100,000,000 days
MaxDateDays == 100000000

\* n \in parseInt's results: is new Date(n * 1000) a valid Date
ValidTime(n) ==
    /\ ~n.nan
    /\ Len(n.digits) <= 14
    /\ LET qr == DivModDigits(n.digits, 1, 0, 0)
       IN  qr[1] < MaxDateDays \/ (qr[1] = MaxDateDays /\ qr[2] = 0)

\* floor(n / 86400): the day the instant falls on, counted from 1970-01-01 UTC
DayOf(n) ==
    LET qr == DivModDigits(n.digits, 1, 0, 0)
    IN  IF ~n.neg THEN qr[1]
        ELSE IF qr[2] = 0 THEN -qr[1] ELSE -qr[1] - 1

\* proleptic Gregorian date of a day count: <<year, month, day>>
CivilFromDays(days) ==
    LET z   == days + 719468
        era == z \div 146097
        doe == z - era * 146097
        yoe == (doe - (doe \div 1460) + (doe \div 36524) - (doe \div 146096)) \div 365
        doy == doe - (365 * yoe + (yoe \div 4) - (yoe \div 100))
        mp  == (5 * doy + 2) \div 153
        d   == doy - ((153 * mp + 2) \div 5) + 1
        m   == IF mp < 10 THEN mp + 3 ELSE mp - 9
        y   == yoe + era * 400 + (IF m <= 2 THEN 1 ELSE 0)
    IN  <<y, m, d>>

RECURSIVE PadNat(_, _)
PadNat(n, width) ==
    IF width = 0 THEN <<>>
    ELSE PadNat(n \div 10, width - 1) \o <<DecDigits[(n % 10) + 1]>>

\* toISOString's year: four digits for 0..9999, else a sign and six digits
IsoYear(y) ==
    IF y >= 0 /\ y <= 9999 THEN PadNat(y, 4)
    ELSE IF y < 0 THEN <<"-">> \o PadNat(-y, 6)
    ELSE <<"+">> \o PadNat(y, 6)

IsoDate(n) ==
    LET ymd == CivilFromDays(DayOf(n))
    IN  IsoYear(ymd[1]) \o <<"-">> \o PadNat(ymd[2], 2) \o <<"-">> \o PadNat(ymd[3], 2)

(***************************************************************************)
(* parseBlameOutput (lines 121-145).  A Partial<BlameInfo> is a function   *)
(* whose domain is the set of fields assigned so far.                      *)
(***************************************************************************)
EmptyBlame == <<>>

SetField(r, k, v) == [f \in (DOMAIN r) \cup {k} |-> IF f = k THEN v ELSE r[f]]

AuthorPrefix == <<"a", "u", "t", "h", "o", "r", " ">>

AuthorTimePrefix == <<"a", "u", "t", "h", "o", "r", "-", "t", "i", "m", "e", " ">>

SummaryPrefix == <<"s", "u", "m", "m", "a", "r", "y", " ">>

\* The forEach without the reset of line 140.
RECURSIVE ParseLinesNoReset(_, _, _, _, _)
ParseLinesNoReset(lines, i, blame, currentBlame, lineNumber) ==
    IF i > Len(lines) THEN [threw |-> FALSE, blame |-> blame]
    ELSE LET line == lines[i] IN
      IF startsWith(line, AuthorPrefix)
      THEN ParseLinesNoReset(lines, i + 1, blame,
                      SetField(currentBlame, "author", substring(line, 7)), lineNumber)
      ELSE IF startsWith(line, AuthorTimePrefix)
      THEN LET timestamp == parseInt(substring(line, 12)) IN
           IF ~ValidTime(timestamp)
           THEN [threw |-> TRUE, blame |-> blame]
           ELSE ParseLinesNoReset(lines, i + 1, blame,
                           SetField(currentBlame, "date", IsoDate(timestamp)), lineNumber)
      ELSE IF startsWith(line, SummaryPrefix)
      THEN ParseLinesNoReset(lines, i + 1, blame,
                      SetField(currentBlame, "message", substring(line, 8)), lineNumber)
      ELSE IF MatchesHash(line)
      THEN LET withHash == SetField(currentBlame, "hash", substringTo(line, 0, HashLen))
               finalized == SetField(withHash, "lineNumber", lineNumber + 1)
           IN  ParseLinesNoReset(lines, i + 1, Append(blame, finalized), finalized, lineNumber + 1)
      ELSE ParseLinesNoReset(lines, i + 1, blame, currentBlame, lineNumber)

\* The forEach of lines 127-142 from line i on.  The result records whether
\* the callback threw, and the blame array as it stood then.
RECURSIVE ParseLines(_, _, _, _, _)
ParseLines(lines, i, blame, currentBlame, lineNumber) ==
    IF i > Len(lines) THEN [threw |-> FALSE, blame |-> blame]
    ELSE LET line == lines[i] IN
      IF startsWith(line, AuthorPrefix)
      THEN ParseLines(lines, i + 1, blame,
                      SetField(currentBlame, "author", substring(line, 7)), lineNumber)
      ELSE IF startsWith(line, AuthorTimePrefix)
      THEN LET timestamp == parseInt(substring(line, 12)) IN
           IF ~ValidTime(timestamp)
           THEN [threw |-> TRUE, blame |-> blame]
           ELSE ParseLines(lines, i + 1, blame,
                           SetField(currentBlame, "date", IsoDate(timestamp)), lineNumber)
      ELSE IF startsWith(line, SummaryPrefix)
      THEN ParseLines(lines, i + 1, blame,
                      SetField(currentBlame, "message", substring(line, 8)), lineNumber)
      ELSE IF MatchesHash(line)
      THEN LET withHash == SetField(currentBlame, "hash", substringTo(line, 0, HashLen))
               finalized == SetField(withHash, "lineNumber", lineNumber + 1)
           IN  ParseLines(lines, i + 1, Append(blame, finalized), EmptyBlame, lineNumber + 1)
      ELSE ParseLines(lines, i + 1, blame, currentBlame, lineNumber)

parseBlameOutput(text) == ParseLines(split(text), 1, <<>>, EmptyBlame, 0)

(***************************************************************************)
(* The host (VS Code) as the provider sees it.                             *)
(***************************************************************************)
\* Most reconciles that may be suspended in a fetch at once: in the window
\* specification, and in the specifications of concurrent fetches.
MaxSuspended == 1

MaxTasks == 2

\* Lines of a document are numbered 0..MaxLine.
MaxLine == 2

Lines == 0..MaxLine

Editors == {"e1", "e2"}

Undefined == "undefined"

DocA == [fsPath |-> "/repo/a.ts", scheme |-> "file", isUntitled |-> FALSE]

DocB == [fsPath |-> "/tmp/b.ts", scheme |-> "file", isUntitled |-> FALSE]

DocUntitled == [fsPath |-> "Untitled-1", scheme |-> "untitled", isUntitled |-> TRUE]

DocGit == [fsPath |-> "/repo/a.ts", scheme |-> "git", isUntitled |-> FALSE]

Documents == {DocA, DocB, DocUntitled, DocGit}

\* A vscode.Selection as the code reads it: start.line <= end.line.
Ranges == {r \in Lines \X Lines : r[1] <= r[2]}

\* Every editor.selections of one or two ranges, and the empty array the
\* code guards against (line 159).
AllSelections == {{}} \cup {{r1, r2} : r1 \in Ranges, r2 \in Ranges}


(***************************************************************************)
(* Labels, tooltips and messages of the source.                            *)
(***************************************************************************)
ActiveLabel == "$(git-commit) Git Blame"

OffLabel == "$(git-commit) Git Blame (Off)"

NotARepoLabel == "$(git-commit) Not a Git Repository"

NotARepoTooltip == "Current file is not in a Git repository"

ActiveTooltip == "Click to toggle Git blame"

FileMissingMsg == "File does not exist"

GitNotInstalledMsg == "Git is not installed"

NotARepoMsg == "Not a git repository"

InvalidTimeMsg == "Invalid time value"

\* Messages of a failed `git blame` child process.
QueryFailedMsg == "Command failed: git blame --line-porcelain: fatal: no such path in HEAD"

OutsideRepoMsg == "Command failed: git blame --line-porcelain: fatal: '/tmp/b.ts' is outside repository at '/repo'"

\* /.*is outside repository.*/.test(message)  (line 98)
IsOutsideRepository(message) == message \in {OutsideRepoMsg}

ErrorShownKey == "error_shown"

(***************************************************************************)
(* What `git blame --line-porcelain` may print.                            *)
(***************************************************************************)
AuthorNames == << <<"A", "l">>, <<"B", "o">>, <<"C", "y">>, <<"D", "i">> >>

HashChars == <<"a", "b", "c", "d">>

\* One block in the wire format of the specification: author, author-time
\* and summary lines, closed by the line that starts with the commit hash.
Block(k) ==
    LET j == ((k - 1) % 4) + 1
    IN  AuthorPrefix \o AuthorNames[j] \o <<NewLine>>
        \o AuthorTimePrefix \o PadNat(k * SecondsPerDay, 6) \o <<NewLine>>
        \o SummaryPrefix \o <<"m", DecDigits[(k % 10) + 1]>> \o <<NewLine>>
        \o Repeat(HashChars[j], HashLen) \o <<" ", DecDigits[(k % 10) + 1]>> \o <<NewLine>>

RECURSIVE BlameText(_)
BlameText(n) == IF n = 0 THEN <<>> ELSE BlameText(n - 1) \o Block(n)

\* A text whose author-time is not a number.
CorruptText == AuthorTimePrefix \o <<"x">> \o <<NewLine>> \o Block(1)

BlameOutputs == {BlameText(0), BlameText(1), BlameText(MaxLine + 1), CorruptText}

BlameResults ==
    [ok : {TRUE}, stdout : BlameOutputs]
        \cup [ok : {FALSE}, message : {QueryFailedMsg, OutsideRepoMsg}]

(***************************************************************************)
(* The provider's state as one record, so that a method that calls another *)
(* is the composition of the two.                                          *)
(***************************************************************************)
Store ==
    [enabled |-> enabled, text |-> statusText, tooltip |-> statusTooltip,
     cache |-> cache, tasks |-> tasks, decorated |-> decorated,
     active |-> activeTextEditor, selections |-> selections,
     notARepo |-> notARepoShown, last |-> last]

Commit(s) ==
    /\ enabled' = s.enabled
    /\ statusText' = s.text
    /\ statusTooltip' = s.tooltip
    /\ cache' = s.cache
    /\ tasks' = s.tasks
    /\ decorated' = s.decorated
    /\ activeTextEditor' = s.active
    /\ selections' = s.selections
    /\ notARepoShown' = s.notARepo
    /\ last' = s.last
    /\ UNCHANGED <<document, parserVars>>

\* the history record of the step being taken
Note(s, k, v) == [s EXCEPT !.last = SetField(@, k, v)]

\* Map.has / Map.get / Map.set on the cache
Has(c, key) == key \in DOMAIN c

\* clear()  (lines 229-233)
clear(s) ==
    IF s.active # Undefined
    THEN [s EXCEPT !.decorated[s.active] = <<>>]
    ELSE s

\* showError(message)  (lines 94-119)
showErrorNoDedup(s, message) ==
    IF IsOutsideRepository(message) THEN s
    ELSE LET s1 == [s EXCEPT !.cache = SetField(@, ErrorShownKey, <<>>)] IN
      CASE message = GitNotInstalledMsg ->
             Note(s1, "shown", "errorMessage: Git is not installed")
        [] message = NotARepoMsg ->
             Note([s1 EXCEPT !.text = NotARepoLabel, !.tooltip = NotARepoTooltip,
                             !.notARepo = Min(@ + 1, 2)],
                  "shown", "statusBar")
        [] message = FileMissingMsg -> s1
        [] OTHER -> Note(Note(s1, "shown", "errorMessage: Git blame error: "), "raw", message)

showErrorOncePerProcess(s, message) ==
    IF Has(s.cache, ErrorShownKey) THEN s
    ELSE showErrorNoDedup(s, message)

showError(s, message) ==
    IF message = NotARepoMsg /\ Has(s.cache, ErrorShownKey) THEN s
    ELSE IF IsOutsideRepository(message) THEN s
    ELSE LET s1 == [s EXCEPT !.cache = SetField(@, ErrorShownKey, <<>>)] IN
      CASE message = GitNotInstalledMsg ->
             Note(s1, "shown", "errorMessage: Git is not installed")
        [] message = NotARepoMsg ->
             Note([s1 EXCEPT !.text = NotARepoLabel, !.tooltip = NotARepoTooltip,
                             !.notARepo = Min(@ + 1, 2)],
                  "shown", "statusBar")
        [] message = FileMissingMsg -> s1
        [] OTHER -> Note(Note(s1, "shown", "errorMessage: Git blame error: "), "raw", message)

\* the loop of lines 164-169
RangeLinesExclusive(r) == {line \in Lines : r[1] <= line /\ line < r[2]}

RangeLines(r) == {line \in Lines : r[1] <= line /\ line <= r[2]}

SelectedLinesOf(sels) == UNION {RangeLines(r) : r \in sels}

\* the character U+2022 of line 197
Bullet == "U+2022"

\* `${value}` of a field that may be undefined
UndefinedText == <<"u", "n", "d", "e", "f", "i", "n", "e", "d">>

Txt(info, f) == IF f \in DOMAIN info THEN info[f] ELSE UndefinedText

\* the decoration of lines 193-206
Decoration(info) ==
    [line |-> info.lineNumber - 1,
     contentText |-> <<" ", " ">> \o Txt(info, "author") \o <<" ", Bullet, " ">> \o Txt(info, "date"),
     hoverMessage |->
         <<"*", "*", "C", "o", "m", "m", "i", "t", ":", "*", "*", " ">> \o Txt(info, "hash") \o <<"\n", "\n">>
         \o <<"*", "*", "A", "u", "t", "h", "o", "r", ":", "*", "*", " ">> \o Txt(info, "author") \o <<"\n", "\n">>
         \o <<"*", "*", "D", "a", "t", "e", ":", "*", "*", " ">> \o Txt(info, "date") \o <<"\n", "\n">>
         \o <<"*", "*", "M", "e", "s", "s", "a", "g", "e", ":", "*", "*", " ">> \o Txt(info, "message")]

\* blame.filter(info => selectedLines.has(info.lineNumber - 1))  (line 192)
FilterBlame(blame, selectedLines) ==
    SelectSeq(blame, LAMBDA info : (info.lineNumber - 1) \in selectedLines)

DecorationsOf(blame, selectedLines) ==
    LET kept == FilterBlame(blame, selectedLines)
    IN  [i \in 1..Len(kept) |-> Decoration(kept[i])]

\* lines 190-214: from the blame in hand to the end of updateDecorations.
\* lineAtThrows: the document lost the line while the call was suspended.
finishUpdate(s, editor, sels, blame, lineAtThrows) ==
    LET decorations == DecorationsOf(blame, SelectedLinesOf(sels))
        s0 == Note(Note(s, "selections", sels), "blame", blame)
    IN  IF lineAtThrows /\ decorations # <<>>
        THEN Note(s0, "exit", "lineAtThrew")
        ELSE LET s1 == Note(Note([s0 EXCEPT !.decorated[editor] = decorations],
                                 "exit", "applied"), "decorations", decorations)
             IN  IF Len(blame) > 0
                 THEN [s1 EXCEPT !.text = ActiveLabel, !.tooltip = ActiveTooltip]
                 ELSE s1

\* the test of line 177
skipsDocumentUntitledOnly(doc) == doc.isUntitled

skipsDocument(doc) == doc.isUntitled \/ doc.scheme # "file"

\* A reconcile suspended in getGitBlame: which await it is at.
NewTask(editor, filePath, sels) ==
    [editor |-> editor, filePath |-> filePath, selections |-> sels,
     pc |-> "fileExists", checks |-> <<>>, edited |-> FALSE]

\* Would updateDecorations(editor) reach the fetch of line 184
NeedsFetch(s, editor) ==
    /\ s.enabled
    /\ editor # Undefined
    /\ SelectedLinesOf(s.selections[editor]) # {}
    /\ ~skipsDocument(document[editor])
    /\ ~Has(s.cache, document[editor].fsPath)

\* updateDecorations(editor) up to its first suspension  (lines 147-188)
updateDecorations(s, editor) ==
    LET n == [s EXCEPT !.last = [op |-> "updateDecorations", editor |-> editor]] IN
    IF ~s.enabled \/ editor = Undefined THEN Note(n, "exit", "off")
    ELSE
      LET s1 == clear(n)
          filePath == document[editor].fsPath
          sels == s1.selections[editor]
          selectedLines == SelectedLinesOf(sels)
      IN  IF Cardinality(sels) = 0 THEN Note(s1, "exit", "noSelections")
          ELSE IF Cardinality(selectedLines) = 0 THEN Note(s1, "exit", "noLines")
          ELSE IF skipsDocument(document[editor])
          THEN Note(s1, "exit", "notAFile")
          ELSE IF Has(s1.cache, filePath)
          THEN finishUpdate(s1, editor, sels, s1.cache[filePath], FALSE)
          ELSE Note([s1 EXCEPT !.tasks = Append(@, NewTask(editor, filePath, sels))],
                    "exit", "suspended")

\* toggle()  (lines 217-227)
toggle(s) ==
    LET s1 == [s EXCEPT !.enabled = ~@]
        s2 == IF s1.enabled
              THEN updateDecorations(s1, s1.active)
              ELSE [clear(s1) EXCEPT !.last = [op |-> "clear"]]
    IN  [s2 EXCEPT !.text = IF s2.enabled THEN ActiveLabel ELSE OffLabel]

\* Removing element i of a sequence
RemoveAt(seq, i) == SubSeq(seq, 1, i - 1) \o SubSeq(seq, i + 1, Len(seq))

\* updateDecorations resumed with the blame getGitBlame returned  (lines 184-214)
returnedCachingEmpty(s, i, blame, lineAtThrows) ==
    LET t  == s.tasks[i]
        s1 == Note([s EXCEPT !.tasks = RemoveAt(@, i)], "returned", blame)
        s2 == [s1 EXCEPT !.cache = SetField(@, t.filePath, blame)]
    IN  finishUpdate(s2, t.editor, t.selections, blame, lineAtThrows)

returnedKeepFirst(s, i, blame, lineAtThrows) ==
    LET t  == s.tasks[i]
        s1 == Note([s EXCEPT !.tasks = RemoveAt(@, i)], "returned", blame)
        s2 == IF Len(blame) > 0 /\ ~Has(s1.cache, t.filePath)
              THEN [s1 EXCEPT !.cache = SetField(@, t.filePath, blame)]
              ELSE s1
    IN  finishUpdate(s2, t.editor, t.selections, blame, lineAtThrows)

returnedWithCurrentSelection(s, i, blame, lineAtThrows) ==
    LET t  == s.tasks[i]
        s1 == Note([s EXCEPT !.tasks = RemoveAt(@, i)], "returned", blame)
        s2 == IF Len(blame) > 0
              THEN [s1 EXCEPT !.cache = SetField(@, t.filePath, blame)]
              ELSE s1
    IN  finishUpdate(s2, t.editor, s.selections[t.editor], blame, lineAtThrows)

returned(s, i, blame, lineAtThrows) ==
    LET t  == s.tasks[i]
        s1 == Note([s EXCEPT !.tasks = RemoveAt(@, i)], "returned", blame)
        s2 == IF Len(blame) > 0
              THEN [s1 EXCEPT !.cache = SetField(@, t.filePath, blame)]
              ELSE s1
    IN  finishUpdate(s2, t.editor, t.selections, blame, lineAtThrows)

\* the history record of a step of getGitBlame for task i
FetchNote(s, i, checks) ==
    [s EXCEPT !.last = [op |-> "getGitBlame", editor |-> s.tasks[i].editor,
                        filePath |-> s.tasks[i].filePath, checks |-> checks,
                        error |-> "none", shown |-> "none"]]

\* the catch of getGitBlame  (lines 87-91)
caughtCachingEmpty(s, i, message) ==
    LET s1 == showError(Note(s, "error", message), message)
    IN  returned([s1 EXCEPT !.cache = SetField(@, s.tasks[i].filePath, <<>>)],
                 i, <<>>, FALSE)

caught(s, i, message) ==
    returned(showError(Note(s, "error", message), message), i, <<>>, FALSE)

\* One availability check of getGitBlame settles  (lines 70-80)
checkDoneNoAbort(s, i, name, ok, nextPc, message) ==
    [s EXCEPT !.tasks[i].pc = nextPc,
              !.tasks[i].checks = Append(@, <<name, ok>>),
              !.last = [op |-> "await"]]

checkDone(s, i, name, ok, nextPc, message) ==
    LET checks == Append(s.tasks[i].checks, <<name, ok>>)
        s1 == FetchNote(s, i, checks)
    IN  IF ok
        THEN [s EXCEPT !.tasks[i].pc = nextPc, !.tasks[i].checks = checks,
                       !.last = [op |-> "await"]]
        ELSE caught(s1, i, message)

\* parseBlameOutput on each text the child process may print (computed once)
Parsed == [text \in BlameOutputs |-> parseBlameOutput(text)]

\* The blame child process settles  (lines 82-86)
blameDoneParseOutsideTry(s, i, r, lineAtThrows) ==
    LET checks == Append(s.tasks[i].checks, <<"blame", r.ok>>)
        s1 == FetchNote(s, i, checks)
    IN  IF ~r.ok THEN caught(s1, i, r.message)
        ELSE LET p == Parsed[r.stdout]
             IN  IF p.threw
                 THEN Note(Note([s1 EXCEPT !.tasks = RemoveAt(@, i)],
                                "error", InvalidTimeMsg), "exit", "rejected")
                 ELSE returned(s1, i, p.blame, lineAtThrows)

blameDone(s, i, r, lineAtThrows) ==
    LET checks == Append(s.tasks[i].checks, <<"blame", r.ok>>)
        s1 == FetchNote(s, i, checks)
    IN  IF ~r.ok THEN caught(s1, i, r.message)
        ELSE LET p == Parsed[r.stdout]
             IN  IF p.threw THEN caught(s1, i, InvalidTimeMsg)
                 ELSE returned(s1, i, p.blame, lineAtThrows)

(***************************************************************************)
(* Actions: the events activate() subscribes to, the toggle command, and   *)
(* the settling of each await of a suspended reconcile.                    *)
(***************************************************************************)
Activated == phase = "activated"

\* A reconcile that would start a fetch needs a free slot: cap is the most
\* reconciles the specification lets be suspended at once.
HasSlot(s, editor, cap) == NeedsFetch(s, editor) => Len(s.tasks) < cap

\* activate()  (lines 241-283)
Activate(cap) ==
    /\ phase = "constructed"
    /\ phase' = "activated"
    /\ HasSlot(Store, activeTextEditor, cap)
    /\ Commit(IF activeTextEditor # Undefined
              THEN updateDecorations(Store, activeTextEditor)
              ELSE [Store EXCEPT !.last = [op |-> "activate"]])

\* the command pure-git-blame.toggle  (lines 246-248)
Toggle(cap) ==
    /\ Activated
    /\ HasSlot([Store EXCEPT !.enabled = ~@], activeTextEditor, cap)
    /\ Commit(toggle(Store))
    /\ UNCHANGED phase

\* onDidChangeTextEditorSelection  (lines 253-257)
ChangeSelection(editor, sels, cap) ==
    /\ Activated
    /\ sels # selections[editor]
    /\ LET s == [Store EXCEPT !.selections[editor] = sels]
       IN  HasSlot(s, editor, cap) /\ Commit(updateDecorations(s, editor))
    /\ UNCHANGED phase

\* onDidChangeActiveTextEditor  (lines 262-266)
ChangeActiveEditor(editor, cap) ==
    /\ Activated
    /\ editor # activeTextEditor
    /\ LET s == [Store EXCEPT !.active = editor]
       IN  /\ HasSlot(s, editor, cap)
           /\ Commit(IF editor # Undefined
                     THEN updateDecorations(s, editor)
                     ELSE [s EXCEPT !.last = [op |-> "noEditor"]])
    /\ UNCHANGED phase

\* onDidChangeTextDocument  (lines 271-276)
ChangeDocument(d, cap) ==
    /\ Activated
    /\ \E e \in Editors : document[e] = d
    /\ LET s == [Store EXCEPT !.tasks =
                    [i \in 1..Len(tasks) |->
                        IF document[tasks[i].editor] = d
                        THEN [tasks[i] EXCEPT !.edited = TRUE]
                        ELSE tasks[i]]]
           here == activeTextEditor # Undefined /\ document[activeTextEditor] = d
       IN  /\ here => HasSlot(s, activeTextEditor, cap)
           /\ Commit(IF here
                     THEN updateDecorations(s, activeTextEditor)
                     ELSE [s EXCEPT !.last = [op |-> "otherDocument"]])
    /\ UNCHANGED phase

AtAwait(i, pc) == Activated /\ i \in 1..Len(tasks) /\ tasks[i].pc = pc

\* fs.promises.access settles  (lines 59-66, 70-72)
FileExistsDone(i, ok) ==
    /\ AtAwait(i, "fileExists")
    /\ Commit(checkDone(Store, i, "fileExists", ok, "isGitInstalled", FileMissingMsg))
    /\ UNCHANGED phase

\* `git --version` settles  (lines 50-57, 74-76)
GitInstalledDone(i, ok) ==
    /\ AtAwait(i, "isGitInstalled")
    /\ Commit(checkDone(Store, i, "isGitInstalled", ok, "isGitRepository", GitNotInstalledMsg))
    /\ UNCHANGED phase

\* `git rev-parse --git-dir` settles  (lines 39-48, 78-80)
GitRepositoryDone(i, ok) ==
    /\ AtAwait(i, "isGitRepository")
    /\ Commit(checkDone(Store, i, "isGitRepository", ok, "blame", NotARepoMsg))
    /\ UNCHANGED phase

\* `git blame --line-porcelain` settles  (lines 82-91)
BlameDone(i, r, lineAtThrows) ==
    /\ AtAwait(i, "blame")
    /\ lineAtThrows => tasks[i].edited
    /\ Commit(blameDone(Store, i, r, lineAtThrows))
    /\ UNCHANGED phase

Cursor == {<<0, 0>>}

Gap == {<<0, 0>>, <<MaxLine, MaxLine>>}

\* The state new GitBlameProvider() leaves  (lines 18-37), in a window with
\* two visible editors, the cursor at the top of each.
ProviderInit ==
    /\ phase = "constructed"
    /\ enabled = TRUE
    /\ statusText = ActiveLabel
    /\ statusTooltip = Undefined
    /\ cache = <<>>
    /\ tasks = <<>>
    /\ decorated = [e \in Editors |-> <<>>]
    /\ selections = [e \in Editors |-> Cursor]
    /\ notARepoShown = 0
    /\ last = [op |-> "constructor"]

NotCalled == [called |-> FALSE]

NoParserRun == output = <<>> /\ parsed = NotCalled

Window(d) == [e \in Editors |-> IF e = "e1" THEN DocA ELSE d]

(***************************************************************************)
(* Spec: the window.  Two editors, every event and the toggle command,     *)
(* one reconcile suspended at a time.                                      *)
(***************************************************************************)
Init ==
    /\ ProviderInit
    /\ document \in {Window(d) : d \in {DocB, DocUntitled, DocGit}}
    /\ activeTextEditor \in Editors \cup {Undefined}
    /\ NoParserRun

WindowResults ==
    [ok : {TRUE}, stdout : {BlameText(0), BlameText(MaxLine + 1)}]
        \cup [ok : {FALSE}, message : {QueryFailedMsg}]

Next ==
    \/ Activate(MaxSuspended)
    \/ Toggle(MaxSuspended)
    \/ \E e \in Editors, sels \in {{}, Cursor, Gap} : ChangeSelection(e, sels, MaxSuspended)
    \/ \E e \in Editors \cup {Undefined} : ChangeActiveEditor(e, MaxSuspended)
    \/ \E d \in Documents : ChangeDocument(d, MaxSuspended)
    \/ \E i \in 1..MaxSuspended, ok \in BOOLEAN : FileExistsDone(i, ok)
    \/ \E i \in 1..MaxSuspended, ok \in BOOLEAN : GitInstalledDone(i, ok)
    \/ \E i \in 1..MaxSuspended, ok \in BOOLEAN : GitRepositoryDone(i, ok)
    \/ \E i \in 1..MaxSuspended, r \in WindowResults, x \in BOOLEAN : BlameDone(i, r, x)

Spec == Init /\ [][Next]_vars

(***************************************************************************)
(* FetchSpec: concurrent fetches.  Both editors show files, the toggle     *)
(* stays on; reconciles are started by switching the active editor and     *)
(* every await may settle either way.                                      *)
(***************************************************************************)
FetchInit ==
    /\ ProviderInit
    /\ document = Window(DocB)
    /\ activeTextEditor \in Editors
    /\ NoParserRun

FetchNext ==
    \/ Activate(MaxTasks)
    \/ \E e \in Editors : ChangeActiveEditor(e, MaxTasks)
    \/ \E i \in 1..MaxTasks, ok \in BOOLEAN : FileExistsDone(i, ok)
    \/ \E i \in 1..MaxTasks, ok \in BOOLEAN : GitInstalledDone(i, ok)
    \/ \E i \in 1..MaxTasks, ok \in BOOLEAN : GitRepositoryDone(i, ok)
    \/ \E i \in 1..MaxTasks, r \in BlameResults : BlameDone(i, r, FALSE)

FetchSpec == FetchInit /\ [][FetchNext]_vars

(***************************************************************************)
(* EditorSpec: the second editor shows a document with no file behind it, *)
(* an untitled one or one of another scheme, whose path the first editor   *)
(* may have cached: the toggle, the selection (none or a cursor), the      *)
(* active editor and the edits vary while fetches for the first settle.    *)
(***************************************************************************)
EditorInit ==
    /\ ProviderInit
    /\ document \in {Window(d) : d \in {DocUntitled, DocGit}}
    /\ activeTextEditor \in Editors
    /\ NoParserRun

EditorResults ==
    [ok : {TRUE}, stdout : {BlameText(MaxLine + 1)}]
        \cup [ok : {FALSE}, message : {QueryFailedMsg}]

EditorNext ==
    \/ Activate(MaxSuspended)
    \/ Toggle(MaxSuspended)
    \/ \E e \in Editors, sels \in {{}, Cursor} : ChangeSelection(e, sels, MaxSuspended)
    \/ \E e \in Editors : ChangeActiveEditor(e, MaxSuspended)
    \/ \E d \in Documents : ChangeDocument(d, MaxSuspended)
    \/ \E i \in 1..MaxSuspended, ok \in BOOLEAN : FileExistsDone(i, ok)
    \/ \E i \in 1..MaxSuspended, ok \in BOOLEAN : GitInstalledDone(i, ok)
    \/ \E i \in 1..MaxSuspended, ok \in BOOLEAN : GitRepositoryDone(i, ok)
    \/ \E i \in 1..MaxSuspended, r \in EditorResults : BlameDone(i, r, FALSE)

EditorSpec == EditorInit /\ [][EditorNext]_vars

(***************************************************************************)
(* SelectSpec: one editor on a file, used sequentially: the user makes     *)
(* any selection of one or two ranges once the last reconcile is through.  *)
(***************************************************************************)
SelectInit ==
    /\ ProviderInit
    /\ document = Window(DocB)
    /\ activeTextEditor = "e1"
    /\ NoParserRun

SelectNext ==
    \/ Activate(MaxSuspended)
    \/ \E sels \in AllSelections :
          tasks = <<>> /\ ChangeSelection("e1", sels, MaxSuspended)
    \/ \E i \in 1..MaxSuspended, ok \in BOOLEAN : FileExistsDone(i, ok)
    \/ \E i \in 1..MaxSuspended, ok \in BOOLEAN : GitInstalledDone(i, ok)
    \/ \E i \in 1..MaxSuspended, ok \in BOOLEAN : GitRepositoryDone(i, ok)
    \/ \E i \in 1..MaxSuspended, r \in BlameResults : BlameDone(i, r, FALSE)

SelectSpec == SelectInit /\ [][SelectNext]_vars

(***************************************************************************)
(* OverlapSpec: one editor on a file whose selection changes while earlier *)
(* reconciles of it are still suspended in their fetches.                  *)
(***************************************************************************)
LastLine == {<<MaxLine, MaxLine>>}

OverlapInit ==
    /\ ProviderInit
    /\ document = Window(DocB)
    /\ activeTextEditor = "e1"
    /\ NoParserRun

OverlapNext ==
    \/ Activate(MaxTasks)
    \/ \E sels \in {{}, Cursor, LastLine} : ChangeSelection("e1", sels, MaxTasks)
    \/ \E i \in 1..MaxTasks, ok \in BOOLEAN : FileExistsDone(i, ok)
    \/ \E i \in 1..MaxTasks, ok \in BOOLEAN : GitInstalledDone(i, ok)
    \/ \E i \in 1..MaxTasks, ok \in BOOLEAN : GitRepositoryDone(i, ok)
    \/ \E i \in 1..MaxTasks, r \in WindowResults : BlameDone(i, r, FALSE)

OverlapSpec == OverlapInit /\ [][OverlapNext]_vars

(***************************************************************************)
(* ParseSpec: parseBlameOutput called on a text of up to MaxTextLines      *)
(* lines, each taken from SampleLines.                                     *)
(***************************************************************************)
MaxTextLines == 4

SampleLines ==
    { AuthorPrefix \o <<"A", "l">>,
      AuthorPrefix \o <<"B", "o">>,
      AuthorTimePrefix \o <<"1", "7", "0", "0", "0", "0", "0", "0", "0", "0">>,
      AuthorTimePrefix \o <<"x">>,
      AuthorTimePrefix \o Repeat("9", 14),
      SummaryPrefix \o <<"F", "i", "x">>,
      Repeat("a", HashLen) \o <<" ", "1", " ", "1">>,
      Repeat("c", HashLen - 1) }

RECURSIVE TextsOf(_)
TextsOf(n) ==
    IF n = 0 THEN {<<>>}
    ELSE {t \o line \o <<NewLine>> : t \in TextsOf(n - 1), line \in SampleLines}

Texts(most) == UNION {TextsOf(n) : n \in 0..most}

ParseInit ==
    /\ ProviderInit
    /\ document = Window(DocB)
    /\ activeTextEditor = "e1"
    /\ output \in Texts(MaxTextLines)
    /\ parsed = NotCalled

Parse ==
    /\ ~parsed.called
    /\ parsed' = SetField(parseBlameOutput(output), "called", TRUE)
    /\ UNCHANGED <<providerVars, output>>

ParseNext == Parse

ParseSpec == ParseInit /\ [][ParseNext]_vars

(***************************************************************************)
(* Properties of parseBlameOutput, checked under ParseSpec.                *)
(***************************************************************************)
\* the lines of a text that begin with a 40-hex-character commit hash
HashLineIndexes(lines) == {i \in 1..Len(lines) : MatchesHash(lines[i])}

\* C4: a text with N lines that begin with a 40-hex-character hash parses
\* to exactly N records, numbered 1..N in input order.
C4_OneRecordPerHashLine ==
    parsed.called =>
        /\ ~parsed.threw
        /\ Len(parsed.blame) = Cardinality(HashLineIndexes(split(output)))
        /\ \A k \in 1..Len(parsed.blame) : parsed.blame[k].lineNumber = k

\* the lines that carry an author-time value
TimeLineIndexes(lines) == {i \in 1..Len(lines) : startsWith(lines[i], AuthorTimePrefix)}

\* C5: parsing never raises an error, whatever an author-time line carries:
\* a call on a text with an author-time line returns a sequence of records.
C5_ParsingNeverThrows ==
    (parsed.called /\ TimeLineIndexes(split(output)) # {}) =>
        (~parsed.threw /\ DOMAIN parsed.blame = 1..Len(parsed.blame))

\* The record's field f is what the last line with the prefix among the
\* lines first..last carries, and is absent when none of them has it.
FieldFromBlock(record, f, prefix, lines, first, last_) ==
    LET having == {i \in first..last_ : startsWith(lines[i], prefix)}
    IN  IF having = {} THEN f \notin DOMAIN record
        ELSE /\ f \in DOMAIN record
             /\ LET i == CHOOSE x \in having : \A y \in having : y <= x
                    carried == SubSeq(lines[i], Len(prefix) + 1, Len(lines[i]))
                IN  IF f = "date"
                    THEN record[f] = IsoDate(parseInt(carried))
                    ELSE record[f] = carried

\* C6: every field of a finalized record comes only from the lines since
\* the previous hash line: a block with no author-time line gives a record
\* with no date, and its author, message, hash and lineNumber are the block's.
C6_FieldsComeFromOwnBlock ==
    parsed.called =>
        LET lines == split(output)
            hashes == HashLineIndexes(lines)
            \* the index of the k-th hash line (0 for k = 0)
            at == [k \in 0..Len(parsed.blame) |->
                     IF k = 0 THEN 0
                     ELSE CHOOSE i \in hashes : Cardinality({j \in hashes : j <= i}) = k]
        IN  \A k \in 1..Len(parsed.blame) :
              LET record == parsed.blame[k] IN
              /\ FieldFromBlock(record, "author", AuthorPrefix, lines, at[k - 1] + 1, at[k])
              /\ FieldFromBlock(record, "date", AuthorTimePrefix, lines, at[k - 1] + 1, at[k])
              /\ FieldFromBlock(record, "message", SummaryPrefix, lines, at[k - 1] + 1, at[k])
              /\ record.hash = SubSeq(lines[at[k]], 1, HashLen)
              /\ record.lineNumber = k
              /\ DOMAIN record \subseteq {"author", "date", "message", "hash", "lineNumber"}

\* Two records, the first from a block with an author and a message but no
\* author-time line, the second from a block of the hash line alone.
C6_BlockWithoutTimeThenBareBlock ==
    /\ parsed.called
    /\ ~parsed.threw
    /\ Len(parsed.blame) = 2
    /\ DOMAIN parsed.blame[1] = {"author", "message", "hash", "lineNumber"}
    /\ DOMAIN parsed.blame[2] = {"hash", "lineNumber"}

(***************************************************************************)
(* Properties of the provider.                                             *)
(***************************************************************************)
\* C1: once toggle() has turned the provider off with no fetch in flight,
\* no decoration is shown in any editor.
C1_ToggleOffClearsDecorations ==
    (last.op = "clear" /\ ~enabled /\ tasks = <<>>) =>
        \A e \in Editors : decorated[e] = <<>>

\* C2: the label of the status bar item agrees with the toggle: the off
\* wording when off, the active or the not-a-repository wording when on.
C2_LabelAgreesWithToggle ==
    /\ enabled => statusText \in {ActiveLabel, NotARepoLabel}
    /\ ~enabled => statusText = OffLabel

\* C3: the decorations a reconcile applies are exactly one for each record
\* of the blame whose lineNumber - 1 lies in one of the inclusive line spans
\* of the selections, anchored to that line, and none for another line.
C3_DecorationsMatchSelection ==
    ("exit" \in DOMAIN last /\ last.exit = "applied") =>
        LET applied == last.decorations
            blame == last.blame
            Selected(line) == \E r \in last.selections : r[1] <= line /\ line <= r[2]
        IN  /\ decorated[last.editor] = applied
            /\ \A k \in 1..Len(blame) :
                  Selected(blame[k].lineNumber - 1) =>
                      Cardinality({j \in 1..Len(applied) :
                                      applied[j].line = blame[k].lineNumber - 1}) = 1
            /\ \A j \in 1..Len(applied) :
                  /\ Selected(applied[j].line)
                  /\ \E k \in 1..Len(blame) : blame[k].lineNumber - 1 = applied[j].line

\* A reconcile applied decorations for two separate cursors over a blame
\* of every line of the document: the first and the last line, not between.
C3_TwoCursorsApplied ==
    /\ "exit" \in DOMAIN last
    /\ last.exit = "applied"
    /\ last.selections = Gap
    /\ Len(last.blame) = MaxLine + 1
    /\ {last.decorations[j].line : j \in 1..Len(last.decorations)} = {0, MaxLine}

\* C7: a failure on the fetch path is caught in getGitBlame: it returns the
\* empty blame and the reconcile that asked for it applies no decoration.
C7_FetchFailureYieldsNoData ==
    last.op = "getGitBlame" =>
        IF last.error # "none"
        THEN /\ "returned" \in DOMAIN last
             /\ last.returned = <<>>
             /\ last.exit = "applied"
             /\ last.decorations = <<>>
             /\ decorated[last.editor] = <<>>
        ELSE \A k \in 1..Len(last.checks) : last.checks[k][2]

\* The blame text did not parse: the failure was caught, and the reconcile
\* went on to apply no decoration.
C7_ParseFailureCaught ==
    /\ last.op = "getGitBlame"
    /\ last.error = InvalidTimeMsg
    /\ last.returned = <<>>
    /\ last.exit = "applied"

\* C8: the status bar item is switched to the not-a-repository wording by
\* showError at most once, however many fetches fail that way.
C8_NotARepoShownAtMostOnce == notARepoShown <= 1

\* A second fetch failed as not-a-repository, after the status bar item had
\* been switched, and showed nothing.
C8_SecondFailureSilent ==
    /\ last.op = "getGitBlame"
    /\ last.error = NotARepoMsg
    /\ last.shown = "none"
    /\ notARepoShown = 1

\* C9: no reconcile on an untitled document, or on one whose scheme is not
\* file, reaches getGitBlame: none is ever at the existence check or at a
\* child process, and each returns before the fetch.
C9_NoFetchOffFile ==
    LET OffFile(e) == document[e].isUntitled \/ document[e].scheme # "file" IN
    /\ \A i \in 1..Len(tasks) : ~OffFile(tasks[i].editor)
    /\ last.op = "getGitBlame" => ~OffFile(last.editor)
    /\ (last.op = "updateDecorations" /\ last.editor # Undefined /\ OffFile(last.editor)) =>
           last.exit \in {"off", "noSelections", "noLines", "notAFile"}

\* A reconcile on the git-scheme document returned at the scheme test, with
\* the provider on, lines selected and a blame of the same path cached.
C9_SkippedWithPathCached ==
    /\ last.op = "updateDecorations"
    /\ last.exit = "notAFile"
    /\ document[last.editor] = DocGit
    /\ enabled
    /\ Has(cache, DocGit.fsPath)

CheckOrder == <<"fileExists", "isGitInstalled", "isGitRepository", "blame">>

ErrorOfCheck == <<FileMissingMsg, GitNotInstalledMsg, NotARepoMsg>>

Passed(n) == [k \in 1..n |-> <<CheckOrder[k], TRUE>>]

\* C10: a fetch runs fileExists, isGitInstalled, isGitRepository in that
\* order; the first check to fail ends it with that check's error, and the
\* blame command runs only after the three have passed.
C10_ChecksRunInOrder ==
    /\ \A i \in 1..Len(tasks) :
          \E n \in 0..3 : tasks[i].checks = Passed(n) /\ tasks[i].pc = CheckOrder[n + 1]
    /\ last.op = "getGitBlame" =>
          \E n \in 1..4 :
              /\ Len(last.checks) = n
              /\ SubSeq(last.checks, 1, n - 1) = Passed(n - 1)
              /\ last.checks[n][1] = CheckOrder[n]
              /\ n < 4 => (~last.checks[n][2] /\ last.error = ErrorOfCheck[n])

\* A fetch ended at the second check: the file exists, git is not installed.
C10_StoppedAtSecondCheck ==
    /\ last.op = "getGitBlame"
    /\ last.checks = <<<<"fileExists", TRUE>>, <<"isGitInstalled", FALSE>>>>
    /\ last.error = GitNotInstalledMsg

(***************************************************************************)
(* Properties of the cache and of the error path.                          *)
(***************************************************************************)
\* the keys of the cache that are file paths
FilePaths == {d.fsPath : d \in Documents}

\* the step just taken ended a fetch in the catch of getGitBlame
FetchFailed(l) == l.op = "getGitBlame" /\ l.error # "none"

\* C11 as stated: after a fetch for a path fails, the cache holds no entry
\* for that path.
C11_NoEntryAfterFailure ==
    FetchFailed(last) => ~Has(cache, last.filePath)

\* C11: a failed fetch leaves the entries of the cache under file paths as
\* they were and starts nothing; a reconcile that reaches the cache lookup
\* for a path with no entry starts a fetch at the first check.
C11_FailureAddsNoEntry ==
    [][ /\ FetchFailed(last') =>
             /\ \A p \in FilePaths :
                   /\ Has(cache', p) <=> Has(cache, p)
                   /\ Has(cache, p) => cache'[p] = cache[p]
             /\ Len(tasks') = Len(tasks) - 1
        /\ (last'.op = "updateDecorations" /\ last'.exit = "suspended") =>
             /\ Len(tasks') = Len(tasks) + 1
             /\ ~Has(cache, tasks'[Len(tasks')].filePath)
             /\ tasks'[Len(tasks')].pc = "fileExists"
             /\ tasks'[Len(tasks')].checks = <<>>
        /\ (last'.op = "updateDecorations" /\ last'.exit = "applied") =>
             Has(cache, document[last'.editor].fsPath)
      ]_vars

\* A fetch for a path failed with nothing cached for it, and the next
\* reconcile of that editor is again suspended in a fetch.
C11_FailedThenFetchedAgain ==
    /\ last.op = "updateDecorations"
    /\ last.exit = "suspended"
    /\ Has(cache, ErrorShownKey)
    /\ \A p \in FilePaths : ~Has(cache, p)
    /\ Len(tasks) = 1

\* C12: every document-change event for the active editor's document, with
\* the provider on, a line selected and the document a saved file, starts a
\* new fetch, so that the blame query runs again.
C12_EditRerunsBlame ==
    [][ \A d \in Documents :
          ( /\ ChangeDocument(d, MaxSuspended)
            /\ activeTextEditor # Undefined
            /\ document[activeTextEditor] = d
            /\ enabled
            /\ SelectedLinesOf(selections[activeTextEditor]) # {}
            /\ ~(d.isUntitled \/ d.scheme # "file") )
          => /\ Len(tasks') = Len(tasks) + 1
             /\ tasks'[Len(tasks')].filePath = d.fsPath
      ]_vars

\* C13: what the user sees of a failed fetch depends only on its class: a
\* missing file shows nothing and leaves the status bar item alone; git
\* not installed shows its error message every time; a failed blame command
\* shows the generic message with the raw text every time, except that a
\* text matching "is outside repository" shows nothing.
C13_EffectDependsOnClass ==
    [][ FetchFailed(last') =>
          LET l == last' IN
          CASE l.error = FileMissingMsg ->
                 /\ l.shown = "none"
                 /\ statusText' = statusText
                 /\ statusTooltip' = statusTooltip
            [] l.error = GitNotInstalledMsg ->
                 l.shown = "errorMessage: Git is not installed"
            [] l.error = OutsideRepoMsg ->
                 l.shown = "none"
            [] l.error = QueryFailedMsg ->
                 /\ l.shown = "errorMessage: Git blame error: "
                 /\ l.raw = QueryFailedMsg
            [] OTHER -> TRUE
      ]_vars

\* Git was found not installed after the status bar item had been switched
\* by an earlier not-a-repository failure, and the message was shown.
C13_NotInstalledShownAfterEarlierError ==
    /\ FetchFailed(last)
    /\ last.error = GitNotInstalledMsg
    /\ last.shown = "errorMessage: Git is not installed"
    /\ notARepoShown = 1

\* the text after the prefix is a non-negative integer in decimal digits
IsSeconds(line) ==
    /\ Len(line) > Len(AuthorTimePrefix)
    /\ \A i \in (Len(AuthorTimePrefix) + 1)..Len(line) : line[i] \in {DecDigits[j] : j \in 1..10}

\* a date of the form YYYY-MM-DD
IsCalendarDate(date) ==
    /\ Len(date) = 10
    /\ date[5] = "-" /\ date[8] = "-"
    /\ \A i \in {1, 2, 3, 4, 6, 7, 9, 10} : date[i] \in {DecDigits[j] : j \in 1..10}

\* C14: when every author-time line of the text carries a non-negative
\* integer of seconds, each block with such a line gives a record whose
\* date is a calendar date YYYY-MM-DD, whose author and message are the
\* texts after their prefixes and whose hash is the first 40 characters of
\* the hash line.
C14_DateIsCalendarDate ==
    LET lines == split(output)
        hashes == HashLineIndexes(lines)
        times == TimeLineIndexes(lines)
    IN  (parsed.called /\ \A i \in times : IsSeconds(lines[i])) =>
          \A h \in hashes :
            LET k == Cardinality({j \in hashes : j <= h})
                before == {j \in hashes : j < h}
                first == IF before = {} THEN 1
                         ELSE (CHOOSE x \in before : \A y \in before : y <= x) + 1
            IN  (\E i \in times : first <= i /\ i <= h) =>
                  /\ ~parsed.threw
                  /\ k <= Len(parsed.blame)
                  /\ "date" \in DOMAIN parsed.blame[k]
                  /\ IsCalendarDate(parsed.blame[k].date)
                  /\ FieldFromBlock(parsed.blame[k], "author", AuthorPrefix, lines, first, h)
                  /\ FieldFromBlock(parsed.blame[k], "message", SummaryPrefix, lines, first, h)
                  /\ parsed.blame[k].hash = SubSeq(lines[h], 1, HashLen)

(***************************************************************************)
(* Properties of reconciles that overlap the toggle or each other.         *)
(***************************************************************************)
\* C15: a reconcile that resumes from its fetch while the provider is off
\* applies no decoration and writes no status label: its editor carries no
\* decoration and the label is the off wording.
C15_ResumeWhileOffDoesNothing ==
    ("returned" \in DOMAIN last /\ ~enabled) =>
        /\ decorated[last.editor] = <<>>
        /\ statusText = OffLabel

\* C17: a reconcile that passes the toggle and editor test leaves no
\* decoration of an earlier reconcile in any other editor.
C17_ReconcileClearsEveryEditor ==
    (last.op = "updateDecorations" /\ last.exit # "off") =>
        \A e \in Editors \ {last.editor} : decorated[e] = <<>>

\* C18: failures of the other classes leave the marker unset, so the first
\* not-a-repository failure switches the status bar item: once a fetch has
\* failed as not-a-repository, the item has been switched.
C18_FirstNotARepoIsShown ==
    (FetchFailed(last) /\ last.error = NotARepoMsg) => notARepoShown >= 1

\* a fetch for the path is in flight
InFlight(p) == \E i \in 1..Len(tasks) : tasks[i].filePath = p

C20_OverlappingWritesAgree ==
    [][ \A p \in FilePaths :
          (Has(cache, p) /\ Has(cache', p)) => cache'[p] = cache[p] ]_vars

\* C20: reconciles for an uncached path each start a fetch of their own,
\* whether or not one for the path is in flight; each fetch that returns a
\* non-empty blame overwrites the entry of its path, so the entry is the
\* blame of the last such fetch to complete; one that returns the empty
\* blame leaves the entry alone.
C20_LastCompletedFetchWins ==
    [][ /\ (last'.op = "updateDecorations" /\ last'.exit = "suspended") =>
             /\ SubSeq(tasks', 1, Len(tasks)) = tasks
             /\ Len(tasks') = Len(tasks) + 1
             /\ tasks'[Len(tasks')].pc = "fileExists"
        /\ "returned" \in DOMAIN last' =>
             IF Len(last'.returned) > 0
             THEN cache'[last'.filePath] = last'.returned
             ELSE \A p \in FilePaths :
                    /\ Has(cache', p) <=> Has(cache, p)
                    /\ Has(cache, p) => cache'[p] = cache[p]
      ]_vars

\* Two fetches for the same path have both passed the three checks and
\* neither blame command has settled.
C20_TwoFetchesOfOnePath ==
    /\ Len(tasks) = 2
    /\ tasks[1].filePath = tasks[2].filePath
    /\ tasks[1].pc = "blame"
    /\ tasks[2].pc = "blame"

\* the lines a set of ranges covers
Covered(ranges) == {n \in Lines : \E r \in ranges : r[1] <= n /\ n <= r[2]}

\* C16: a reconcile keeps the selection it found when it was triggered, and
\* when it resumes from its fetch it decorates the lines of that selection,
\* whatever the selection is by then and whichever reconcile was triggered
\* last: the decorations shown are those of the reconcile that completed last.
C16_LastToCompleteWins ==
    [][ /\ (last'.op = "updateDecorations" /\ last'.exit = "suspended") =>
             tasks'[Len(tasks')].selections = selections'[last'.editor]
        /\ ("returned" \in DOMAIN last' /\ last'.exit = "applied") =>
             \E i \in 1..Len(tasks) :
                /\ tasks[i].editor = last'.editor
                /\ Len(tasks') = Len(tasks) - 1
                /\ LET shown == decorated'[tasks[i].editor] IN
                   {shown[j].line : j \in 1..Len(shown)}
                     = {n \in Covered(tasks[i].selections) :
                          \E k \in 1..Len(last'.returned) :
                             last'.returned[k].lineNumber - 1 = n}
      ]_vars

\* No reconcile is in flight, a line is selected, and the editor shows a
\* decoration on a line outside the selection.
C16_StaleDecorationsShown ==
    /\ tasks = <<>>
    /\ selections["e1"] # {}
    /\ \E j \in 1..Len(decorated["e1"]) :
          decorated["e1"][j].line \notin Covered(selections["e1"])

====
